---- MODULE Spec2Model ----
(***************************************************************************)
(* Model of ros/src/waypoint_updater/waypoint_updater.py: the              *)
(* WaypointUpdater node.  Its state is the fields of the WaypointUpdater   *)
(* object; its operations are the four subscriber callbacks.  Under Spec   *)
(* each callback is delivered after __init__ and runs to completion (one   *)
(* action per callback).  Under SpecConc the callbacks run as rospy runs    *)
(* them: each subscription has its own thread, which starts delivering as   *)
(* soon as the subscription is registered, so that the callbacks interleave *)
(* with each other and with the rest of __init__ at each access to a field. *)
(*                                                                         *)
(* Conventions                                                             *)
(*  - Python's None is the record None; a value v that may be None is held *)
(*    as Some(v).                                                          *)
(*  - Track indices are 0-based as in the source; At(s, i) reads s[i].     *)
(*  - The track lies on one axis: a Waypoint object is [x, v], x its       *)
(*    position in 1/Scale distance units and v its target speed            *)
(*    (twist.twist.linear.x).  The Euclidean distance of two waypoints is  *)
(*    then |x1 - x2| / Scale.                                              *)
(*  - Python lists hold references: `objects` is the store of the Waypoint *)
(*    objects of the loaded track, and a list of waypoints is a sequence   *)
(*    of references into it.                                               *)
(*  - Speeds are exact rationals [n, d] (d > 0, lowest terms), so that the *)
(*    samples of numpy.linspace are computed exactly.                      *)
(***************************************************************************)
EXTENDS Integers, Sequences, FiniteSets, TLC

VARIABLES
    stop_line_positions,    \* self.stop_line_positions (static configuration)
    objects,                \* the Waypoint objects of the loaded track, by reference
    waypoints,              \* self.waypoints: None or a list of references to them
    waypoints_kdtree,       \* self.waypoints_kdtree: None or the indexed positions
    current_velocity,       \* self.current_velocity
    current_traffic_light,  \* self.current_traffic_light: None or a TrafficLight
    current_pose,           \* self.current_pose: None or a pose
    base_waypoints,         \* the Lane last delivered on /base_waypoints, as sent
    handler,                \* the callback that ran last
    raised,                 \* the exception that callback ended with, or NoException
    published,              \* the messages that callback published, in order; a
                            \* Lane holds the list it was given (references)
    rosout,                 \* the log records that callback wrote, in order
    branch,                 \* the branch of pose_cb's decision that callback took
    attrs,                  \* the names of the attributes the object has so far
    pc,                     \* where __init__ and the threads of /current_pose and
                            \* /base_waypoints stand (the line each runs next)
    frame,                  \* the local variables of the running pose_cb
    unread                  \* a TrafficLight is stored that no decision of pose_cb
                            \* has read yet

\* What the interleaving of the threads adds to the fields.
conc_vars == <<attrs, pc, frame, unread>>

vars == <<stop_line_positions, objects, waypoints, waypoints_kdtree, current_velocity,
          current_traffic_light, current_pose, base_waypoints, handler, raised,
          published, rosout, branch, attrs, pc, frame, unread>>

----------------------------------------------------------------------------
(* Bounds of the model *)

Scale == 2          \* positions are multiples of 1/Scale distance unit
MaxPoseX == 6       \* poses lie at 0 .. MaxPoseX (in 1/Scale units)

(* Program constants *)

LOOKAHEAD_WPS == 200
VEL_THRESHOLD == 5

RED == 0
YELLOW == 1

----------------------------------------------------------------------------
(* Python values *)

None == [isNone |-> TRUE]
Some(v) == [isNone |-> FALSE, val |-> v]

NoException == "NoException"
IndexError == "IndexError"
AttributeError == "AttributeError"
TypeError == "TypeError"

At(s, i) == s[i + 1]

Abs(a) == IF a < 0 THEN -a ELSE a
Min(a, b) == IF a < b THEN a ELSE b

RECURSIVE GCD(_, _)
GCD(a, b) == IF b = 0 THEN a ELSE GCD(b, a % b)

Rat(n, d) ==
    LET g == GCD(Abs(n), d)
    IN  [n |-> n \div g, d |-> d \div g]

RatGeq(a, b) == a.n * b.d >= b.n * a.d
Zero == Rat(0, 1)

RECURSIVE SumSeq(_)
SumSeq(s) == IF s = <<>> THEN 0 ELSE Head(s) + SumSeq(Tail(s))

----------------------------------------------------------------------------
(* numpy and scipy *)

\* numpy.linspace(start, stop, num) for integers start, stop: num evenly spaced
\* samples, the first start and (for num > 1) the last stop; [start] for num = 1
\* and the empty array for num = 0.
linspace(start, stop, num) ==
    [k \in 1..num |->
        IF num = 1 THEN Rat(start, 1)
        ELSE Rat(start * (num - 1) + (k - 1) * (stop - start), num - 1)]

\* The index, outside `skip`, of the indexed point nearest to x; of equally
\* near points the one of lowest index.
nearest(points, x, skip) ==
    LET I == (0..(Len(points) - 1)) \ skip
        dist(i) == Abs(At(points, i) - x)
    IN  CHOOSE i \in I :
            \A j \in I : dist(i) < dist(j) \/ (dist(i) = dist(j) /\ i <= j)

\* cKDTree.query(point): the index of the nearest of the indexed points.
kdtree_query(points, x) == nearest(points, x, {})

\* cKDTree.query(point, k=2): the index of the second nearest point.
kdtree_query_second(points, x) == nearest(points, x, {kdtree_query(points, x)})

\* helper.next_waypoint_index_kdtree(pose, kdtree): of the two indexed points
\* nearest to the pose, the one the pose's heading points toward.
next_waypoint_index_kdtree(pose, kdtree) ==
    LET first == kdtree_query(kdtree, pose.x)
        second == kdtree_query_second(kdtree, pose.x)
        ahead(i) == pose.heading * (At(kdtree, i) - pose.x) >= 0
    IN  IF ahead(first) THEN first
        ELSE IF ahead(second) THEN second
        ELSE first

\* Python's s[lo:hi] for 0 <= lo <= hi.
Slice(s, lo, hi) ==
    [k \in 1..(Min(hi, Len(s)) - Min(lo, Len(s))) |-> s[lo + k]]

\* The Waypoint objects a list refers to, by value (a serialised message).
Deref(heap, wps) == [k \in 1..Len(wps) |-> heap[wps[k]]]

\* helper.create_numpy_repr(waypoints): the array of the waypoints' positions.
create_numpy_repr(heap, wps) == [k \in 1..Len(wps) |-> heap[wps[k]].x]

----------------------------------------------------------------------------
(* WaypointUpdater's helpers *)

\* A variant of the write that lands one index earlier.
set_waypoint_velocity_shifted(heap, wps, waypoint, velocity) ==
    [heap EXCEPT ![At(wps, waypoint - 1)].v = velocity]

\* set_waypoint_velocity(waypoints, waypoint, velocity): writes the speed field
\* of the Waypoint object that the list holds at index `waypoint`.
set_waypoint_velocity(heap, wps, waypoint, velocity) ==
    [heap EXCEPT ![At(wps, waypoint)].v = velocity]

\* dl(a, b): the Euclidean distance of two positions, in 1/Scale units.
dl(a, b) == Abs(a.x - b.x)

\* The loop of distance(): i runs over range(wp1, wp2 + 1), reading
\* waypoints[wp1] and waypoints[i] and then moving wp1 to i.
RECURSIVE distance_loop(_, _, _, _, _, _)
distance_loop(heap, wps, wp1, i, wp2, dist) ==
    IF i > wp2 THEN [raised |-> NoException, val |-> dist]
    ELSE IF wp1 >= Len(wps) \/ i >= Len(wps) THEN [raised |-> IndexError, val |-> dist]
    ELSE distance_loop(heap, wps, i, i + 1, wp2,
                       dist + dl(heap[At(wps, wp1)], heap[At(wps, i)]))

distance(heap, wps, wp1, wp2) == distance_loop(heap, wps, wp1, wp1, wp2, 0)

\* distances = [self.distance(new_waypoints, i, i+1)
\*              for i in range(current_pose_wp_idx, stop_point_idx + 1)]
RECURSIVE distances_from(_, _, _, _, _)
distances_from(heap, wps, i, stop_point_idx, acc) ==
    IF i > stop_point_idx THEN [raised |-> NoException, val |-> acc]
    ELSE LET d == distance(heap, wps, i, i + 1)
         IN  IF d.raised # NoException THEN [raised |-> d.raised, val |-> acc]
             ELSE distances_from(heap, wps, i + 1, stop_point_idx, Append(acc, d.val))

\* int(math.floor(sum(distances))), the distances being in 1/Scale units.
total_distance_of(distances) == SumSeq(distances) \div Scale

\* The speed distribution over the truncated arc length: two linear ramps below
\* VEL_THRESHOLD, one linear ramp otherwise.
distribution_of(velocity, total_distance) ==
    IF velocity < VEL_THRESHOLD
    THEN linspace(velocity, VEL_THRESHOLD, total_distance)
         \o linspace(VEL_THRESHOLD, 0, total_distance)
    ELSE linspace(velocity, 0, total_distance)

\* The loop over range(current_pose_wp_idx + 1, stop_point_idx + 1): each
\* waypoint gets distribution[int(distances[dist_idx])]; an index past the end
\* of the distribution raises IndexError and leaves the earlier writes in place.
RECURSIVE velocity_loop(_, _, _, _, _, _, _)
velocity_loop(heap, wps, distances, distribution, wp_idx, stop_point_idx, dist_idx) ==
    IF wp_idx > stop_point_idx THEN [raised |-> NoException, heap |-> heap]
    ELSE LET at == At(distances, dist_idx) \div Scale
         IN  IF at >= Len(distribution) THEN [raised |-> IndexError, heap |-> heap]
             ELSE velocity_loop(
                    set_waypoint_velocity(heap, wps, wp_idx, At(distribution, at)),
                    wps, distances, distribution, wp_idx + 1, stop_point_idx,
                    dist_idx + 1)

\* new_waypoints = self.waypoints[:]: a new list holding the same references.
list_copy(wps) == wps

\* set_velocity_leading_to_stop_point(current_pose_wp_idx, stop_point_idx): the
\* list it returns, the Waypoint objects as it leaves them, and the exception it
\* ends with.
set_velocity_leading_to_stop_point(heap, self_waypoints, velocity, current_pose_wp_idx, stop_point_idx) ==
    LET new_waypoints == list_copy(self_waypoints)
        distances == distances_from(heap, new_waypoints, current_pose_wp_idx,
                                    stop_point_idx, <<>>)
    IN  IF distances.raised # NoException
        THEN [raised |-> distances.raised, heap |-> heap, new_waypoints |-> new_waypoints]
        ELSE LET total_distance == total_distance_of(distances.val)
                 distribution == distribution_of(velocity, total_distance)
                 done == velocity_loop(heap, new_waypoints, distances.val, distribution,
                                       current_pose_wp_idx + 1, stop_point_idx, 0)
             IN  [raised |-> done.raised, heap |-> done.heap,
                  new_waypoints |-> new_waypoints]

\* A variant of the slice that forgets the lookahead limit.
next_wps_to_track_end(new_waypoints, closest_wp_idx) ==
    Slice(new_waypoints, closest_wp_idx, Len(new_waypoints))

\* next_wps = new_waypoints[closest_wp_idx:closest_wp_idx + LOOKAHEAD_WPS]
next_wps_of(new_waypoints, closest_wp_idx) ==
    Slice(new_waypoints, closest_wp_idx, closest_wp_idx + LOOKAHEAD_WPS)

----------------------------------------------------------------------------
(* Inputs *)

\* TrafficLight.state: RED, YELLOW, GREEN (2) and UNKNOWN (4).
LightStates == {RED, YELLOW, 2, 4}
TrafficLights == [state : LightStates]

\* twist.linear.x of a /current_velocity message: below and above VEL_THRESHOLD.
Velocities == {2, 8}

Nominal == Rat(10, 1)

\* The distances of consecutive waypoints of the short tracks, in 1/Scale units:
\* evenly spaced, shrinking, growing, closer than one unit, and coincident
\* waypoints.
TrackGaps == { <<2, 2, 2>>, <<4, 2, 2>>, <<2, 4, 2, 2>>, <<1, 0, 4>>, <<2, 0, 0>> }

RECURSIVE PositionsOf(_, _)
PositionsOf(gaps, k) == IF k = 1 THEN 0 ELSE PositionsOf(gaps, k - 1) + gaps[k - 1]

ShortTracks ==
    { [k \in 1..(Len(gaps) + 1) |-> [x |-> PositionsOf(gaps, k), v |-> Nominal]] :
        gaps \in TrackGaps }

\* A track longer than the lookahead window, its waypoints four units apart.
LongTrack ==
    [k \in 1..(LOOKAHEAD_WPS + 2) |-> [x |-> (k - 1) * 4 * Scale, v |-> Nominal]]

Lanes == ShortTracks \cup {LongTrack}

Poses == [x : 0..MaxPoseX, heading : {1, -1}]

\* config['stop_line_positions']
StopLineConfigs == {<<1, 6>>}

----------------------------------------------------------------------------
(* The object's attributes and pose_cb's local variables *)

\* The attributes __init__ gives the object, in the order it assigns them.
Attributes == { "stop_line_positions", "publishers", "waypoints", "current_velocity",
                "waypoints_kdtree", "current_traffic_light", "current_pose" }

\* pose_cb's local variables before they are assigned.
NoFrame == [pose |-> None, closest_wp_idx |-> 0, stop_line_waypoint_idx |-> 0,
            next_wps |-> <<>>]

----------------------------------------------------------------------------
(* The state after __init__ *)

Init ==
    /\ stop_line_positions \in StopLineConfigs
    /\ objects = <<>>
    /\ waypoints = None
    /\ current_velocity = 0
    /\ waypoints_kdtree = None
    /\ current_traffic_light = None
    /\ current_pose = None
    /\ base_waypoints = None
    /\ handler = "__init__"
    /\ raised = NoException
    /\ published = <<>>
    /\ rosout = <<>>
    /\ branch = "none"
    /\ attrs = Attributes
    /\ pc = [init |-> "l68", pose |-> "idle", track |-> "idle"]
    /\ frame = NoFrame
    /\ unread = FALSE

----------------------------------------------------------------------------
(* The callbacks *)

\* A variant of the speed update that also consumes the stored signal.
current_velocity_cb_consuming(curr_vel_msg) ==
    /\ current_velocity' = curr_vel_msg
    /\ current_traffic_light' = None
    /\ handler' = "current_velocity_cb"
    /\ raised' = NoException
    /\ published' = <<>>
    /\ rosout' = <<>>
    /\ branch' = "none"
    /\ UNCHANGED <<stop_line_positions, objects, waypoints, waypoints_kdtree,
                   current_pose, base_waypoints>>
    /\ UNCHANGED conc_vars

current_velocity_cb(curr_vel_msg) ==
    /\ current_velocity' = curr_vel_msg
    /\ handler' = "current_velocity_cb"
    /\ raised' = NoException
    /\ published' = <<>>
    /\ rosout' = <<>>
    /\ branch' = "none"
    /\ UNCHANGED <<stop_line_positions, objects, waypoints, waypoints_kdtree,
                   current_traffic_light, current_pose, base_waypoints>>
    /\ UNCHANGED conc_vars

upcoming_traffic_light_cb(msg) ==
    /\ current_traffic_light' = Some(msg)
    /\ handler' = "upcoming_traffic_light_cb"
    /\ raised' = NoException
    /\ published' = <<>>
    /\ rosout' = <<>>
    /\ branch' = "none"
    /\ UNCHANGED <<stop_line_positions, objects, waypoints, waypoints_kdtree,
                   current_velocity, current_pose, base_waypoints>>
    /\ UNCHANGED conc_vars

\* The Lane is deserialised into fresh Waypoint objects, which self.waypoints
\* then refers to.
waypoints_cb(lane) ==
    /\ objects' = lane
    /\ waypoints' = Some([k \in 1..Len(lane) |-> k])
    /\ waypoints_kdtree' = Some(create_numpy_repr(objects', waypoints'.val))
    /\ base_waypoints' = Some(lane)
    /\ handler' = "waypoints_cb"
    /\ raised' = NoException
    /\ published' = <<>>
    /\ rosout' = <<"info", "info">>
    /\ branch' = "none"
    /\ UNCHANGED <<stop_line_positions, current_velocity, current_traffic_light,
                   current_pose>>
    /\ UNCHANGED conc_vars

\* pose_cb's computation of closest_wp_idx.
closest_wp_idx_of(pose, kdtree) == next_waypoint_index_kdtree(pose, kdtree)

\* pose_cb's computation of stop_line_waypoint_idx: the stop line nearest to the
\* pose, mapped onto the track with the pose's orientation.
stop_line_waypoint_idx_of(pose, stop_lines, kdtree) ==
    LET stop_line_idx == kdtree_query(stop_lines, pose.x)
        stop_line_pose == [x |-> At(stop_lines, stop_line_idx), heading |-> pose.heading]
    IN  next_waypoint_index_kdtree(stop_line_pose, kdtree)

\* The condition of pose_cb's decision: the light is RED or YELLOW.
must_stop(light) ==
    /\ light # None
    /\ light.val.state = RED \/ light.val.state = YELLOW

pose_cb(pose) ==
    /\ handler' = "pose_cb"
    /\ UNCHANGED conc_vars
    /\ IF waypoints = None
       THEN \* rospy has no attribute `error`: the call raises AttributeError
            /\ raised' = AttributeError
            /\ published' = <<>>
            /\ rosout' = <<>>
            /\ branch' = "none"
            /\ UNCHANGED <<stop_line_positions, objects, waypoints, waypoints_kdtree,
                           current_velocity, current_traffic_light, current_pose,
                           base_waypoints>>
       ELSE LET closest_wp_idx == closest_wp_idx_of(pose, waypoints_kdtree.val)
                stop_line_waypoint_idx ==
                    stop_line_waypoint_idx_of(pose, stop_line_positions, waypoints_kdtree.val)
                stop_msg == [topic |-> "stop_line_waypoint", data |-> stop_line_waypoint_idx]
            IN  /\ current_pose' = Some(pose)
                /\ IF must_stop(current_traffic_light)
                   THEN LET r == set_velocity_leading_to_stop_point(
                                    objects, waypoints.val, current_velocity,
                                    closest_wp_idx, stop_line_waypoint_idx)
                            next_wps == next_wps_of(r.new_waypoints, closest_wp_idx)
                        IN  /\ branch' = "DECELERATE"
                            /\ objects' = r.heap
                            /\ raised' = r.raised
                            /\ IF r.raised # NoException
                               THEN /\ published' = <<stop_msg>>
                                    /\ UNCHANGED current_traffic_light
                               ELSE /\ current_traffic_light' = None
                                    /\ published' =
                                         <<stop_msg,
                                           [topic |-> "final_waypoints", data |-> next_wps]>>
                   ELSE LET next_wps == next_wps_of(waypoints.val, closest_wp_idx)
                        IN  /\ branch' = "CRUISE"
                            /\ raised' = NoException
                            /\ current_traffic_light' = None
                            /\ published' =
                                 <<stop_msg,
                                   [topic |-> "final_waypoints", data |-> next_wps]>>
                            /\ UNCHANGED objects
                /\ rosout' = <<>>
                /\ UNCHANGED <<stop_line_positions, waypoints, waypoints_kdtree,
                               current_velocity, base_waypoints>>

Next ==
    \/ \E m \in Velocities : current_velocity_cb(m)
    \/ \E m \in TrafficLights : upcoming_traffic_light_cb(m)
    \/ \E lane \in Lanes : waypoints_cb(lane)
    \/ \E pose \in Poses : pose_cb(pose)

Spec == Init /\ [][Next]_vars

----------------------------------------------------------------------------
(* The callbacks as rospy runs them: one thread per subscription, started  *)
(* by rospy.Subscriber (lines 44-49) while __init__ goes on to line 51.    *)
(* A thread is preempted only between its accesses to the object's fields; *)
(* handler, raised and rosout tell of the step taken last, published and   *)
(* branch of the pose_cb that runs or ran last.                            *)

\* The messages delivered while threads interleave.
ConcLanes == { [k \in 1..4 |-> [x |-> PositionsOf(<<2, 2, 2>>, k), v |-> Nominal]] }
ConcPoses == { [x |-> 0, heading |-> 1], [x |-> 2, heading |-> 1] }
ConcLights == { [state |-> RED], [state |-> 2] }

\* The state when the last rospy.Subscriber call (line 49) has returned: the
\* object has no attribute yet (the variables of absent attributes hold
\* placeholders) and no callback has run.
InitConc ==
    /\ stop_line_positions = <<>>
    /\ objects = <<>>
    /\ waypoints = None
    /\ current_velocity = 0
    /\ waypoints_kdtree = None
    /\ current_traffic_light = None
    /\ current_pose = None
    /\ base_waypoints = None
    /\ handler = "__init__"
    /\ raised = NoException
    /\ published = <<>>
    /\ rosout = <<>>
    /\ branch = "none"
    /\ attrs = {}
    /\ pc = [init |-> "l51", pose |-> "idle", track |-> "idle"]
    /\ frame = NoFrame
    /\ unread = FALSE

\* The line __init__ runs after line l.
init_next(l) ==
    CASE l = "l51" -> "l55"
      [] l = "l55" -> "l60"
      [] l = "l60" -> "l61"
      [] l = "l61" -> "l63"
      [] l = "l63" -> "l64"
      [] l = "l64" -> "l66"
      [] l = "l66" -> "l68"

\* The attribute the statement of __init__ at line l assigns.
init_assigns(l) ==
    CASE l = "l51" -> "stop_line_positions"
      [] l = "l55" -> "publishers"
      [] l = "l60" -> "waypoints"
      [] l = "l61" -> "current_velocity"
      [] l = "l63" -> "waypoints_kdtree"
      [] l = "l64" -> "current_traffic_light"
      [] l = "l66" -> "current_pose"

\* One statement of __init__ from line 51 on; at line 68 it blocks in spin().
init_thread ==
    /\ pc.init # "l68"
    /\ LET l == pc.init
       IN  /\ pc' = [pc EXCEPT !.init = init_next(l)]
           /\ attrs' = attrs \cup {init_assigns(l)}
           /\ \E config \in StopLineConfigs :
                stop_line_positions' = IF l = "l51" THEN config ELSE stop_line_positions
           /\ waypoints' = IF l = "l60" THEN None ELSE waypoints
           /\ current_velocity' = IF l = "l61" THEN 0 ELSE current_velocity
           /\ waypoints_kdtree' = IF l = "l63" THEN None ELSE waypoints_kdtree
           /\ current_traffic_light' = IF l = "l64" THEN None ELSE current_traffic_light
           /\ unread' = IF l = "l64" THEN FALSE ELSE unread
           /\ current_pose' = IF l = "l66" THEN None ELSE current_pose
    /\ handler' = "__init__"
    /\ raised' = NoException
    /\ rosout' = <<>>
    /\ UNCHANGED <<objects, base_waypoints, published, branch, frame>>

\* current_velocity_cb on the thread of /current_velocity.
velocity_thread(curr_vel_msg) ==
    /\ current_velocity' = curr_vel_msg
    /\ attrs' = attrs \cup {"current_velocity"}
    /\ handler' = "current_velocity_cb"
    /\ raised' = NoException
    /\ rosout' = <<>>
    /\ UNCHANGED <<stop_line_positions, objects, waypoints, waypoints_kdtree,
                   current_traffic_light, current_pose, base_waypoints, published,
                   branch, pc, frame, unread>>

\* upcoming_traffic_light_cb on the thread of /traffic_waypoint.
traffic_light_thread(msg) ==
    /\ current_traffic_light' = Some(msg)
    /\ attrs' = attrs \cup {"current_traffic_light"}
    /\ unread' = TRUE
    /\ handler' = "upcoming_traffic_light_cb"
    /\ raised' = NoException
    /\ rosout' = <<>>
    /\ UNCHANGED <<stop_line_positions, objects, waypoints, waypoints_kdtree,
                   current_velocity, current_pose, base_waypoints, published,
                   branch, pc, frame>>

\* waypoints_cb on the thread of /base_waypoints, lines 147-148: the track is
\* delivered once.
track_thread_l148(lane) ==
    /\ pc.track = "idle"
    /\ pc' = [pc EXCEPT !.track = "l150"]
    /\ objects' = lane
    /\ waypoints' = Some([k \in 1..Len(lane) |-> k])
    /\ base_waypoints' = Some(lane)
    /\ attrs' = attrs \cup {"waypoints"}
    /\ handler' = "waypoints_cb"
    /\ raised' = NoException
    /\ rosout' = <<"info">>
    /\ UNCHANGED <<stop_line_positions, waypoints_kdtree, current_velocity,
                   current_traffic_light, current_pose, published, branch, frame,
                   unread>>

\* waypoints_cb, lines 150-152: it reads self.waypoints again; iterating over
\* None raises TypeError.
track_thread_l150 ==
    /\ pc.track = "l150"
    /\ pc' = [pc EXCEPT !.track = "done"]
    /\ handler' = "waypoints_cb"
    /\ IF waypoints = None
       THEN /\ raised' = TypeError
            /\ rosout' = <<>>
            /\ UNCHANGED <<waypoints_kdtree, attrs>>
       ELSE /\ raised' = NoException
            /\ rosout' = <<"info">>
            /\ waypoints_kdtree' = Some(create_numpy_repr(objects, waypoints.val))
            /\ attrs' = attrs \cup {"waypoints_kdtree"}
    /\ UNCHANGED <<stop_line_positions, objects, waypoints, current_velocity,
                   current_traffic_light, current_pose, base_waypoints, published,
                   branch, frame, unread>>

\* pose_cb on the thread of /current_pose, lines 111-113: the guard.  Reading an
\* attribute the object does not have yet raises AttributeError, as does
\* rospy.error.
pose_thread_l111(pose) ==
    /\ pc.pose = "idle"
    /\ handler' = "pose_cb"
    /\ published' = <<>>
    /\ branch' = "none"
    /\ rosout' = <<>>
    /\ IF "waypoints" \notin attrs \/ waypoints = None
       THEN /\ raised' = AttributeError
            /\ frame' = NoFrame
            /\ UNCHANGED pc
       ELSE /\ raised' = NoException
            /\ frame' = [NoFrame EXCEPT !.pose = Some(pose)]
            /\ pc' = [pc EXCEPT !.pose = "l115"]
    /\ UNCHANGED <<stop_line_positions, objects, waypoints, waypoints_kdtree,
                   current_velocity, current_traffic_light, current_pose,
                   base_waypoints, attrs, unread>>

\* pose_cb, lines 115-131: it stores the pose, maps the pose and the nearest
\* stop line onto the track and publishes the stop line's index.  The helper
\* fails on a spatial index that is None.
pose_thread_l115 ==
    /\ pc.pose = "l115"
    /\ handler' = "pose_cb"
    /\ rosout' = <<>>
    /\ current_pose' = frame.pose
    /\ attrs' = attrs \cup {"current_pose"}
    /\ IF \/ ~({"waypoints_kdtree", "stop_line_positions", "publishers"} \subseteq attrs)
          \/ waypoints_kdtree = None
       THEN /\ raised' = AttributeError
            /\ frame' = NoFrame
            /\ pc' = [pc EXCEPT !.pose = "idle"]
            /\ UNCHANGED published
       ELSE LET closest_wp_idx == closest_wp_idx_of(frame.pose.val, waypoints_kdtree.val)
                stop_line_waypoint_idx ==
                    stop_line_waypoint_idx_of(frame.pose.val, stop_line_positions,
                                              waypoints_kdtree.val)
            IN  /\ raised' = NoException
                /\ frame' = [frame EXCEPT !.closest_wp_idx = closest_wp_idx,
                                          !.stop_line_waypoint_idx = stop_line_waypoint_idx]
                /\ published' = <<[topic |-> "stop_line_waypoint",
                                   data |-> stop_line_waypoint_idx]>>
                /\ pc' = [pc EXCEPT !.pose = "l134"]
    /\ UNCHANGED <<stop_line_positions, objects, waypoints, waypoints_kdtree,
                   current_velocity, current_traffic_light, base_waypoints, branch,
                   unread>>

\* pose_cb, lines 134-135: the decision reads the stored TrafficLight.
pose_thread_l134 ==
    /\ pc.pose = "l134"
    /\ handler' = "pose_cb"
    /\ rosout' = <<>>
    /\ IF "current_traffic_light" \notin attrs
       THEN /\ raised' = AttributeError
            /\ frame' = NoFrame
            /\ pc' = [pc EXCEPT !.pose = "idle"]
            /\ UNCHANGED <<branch, unread>>
       ELSE /\ raised' = NoException
            /\ branch' = IF must_stop(current_traffic_light) THEN "DECELERATE" ELSE "CRUISE"
            /\ unread' = IF current_traffic_light # None THEN FALSE ELSE unread
            /\ pc' = [pc EXCEPT !.pose = "l136"]
            /\ UNCHANGED frame
    /\ UNCHANGED <<stop_line_positions, objects, waypoints, waypoints_kdtree,
                   current_velocity, current_traffic_light, current_pose,
                   base_waypoints, published, attrs>>

\* pose_cb, lines 136-142: new_waypoints by the branch taken, then the slice.
\* Both branches read self.waypoints again: None can be neither copied nor
\* sliced (TypeError).
pose_thread_l136 ==
    /\ pc.pose = "l136"
    /\ handler' = "pose_cb"
    /\ rosout' = <<>>
    /\ IF waypoints = None
       THEN /\ raised' = TypeError
            /\ frame' = NoFrame
            /\ pc' = [pc EXCEPT !.pose = "idle"]
            /\ UNCHANGED objects
       ELSE IF branch = "CRUISE"
       THEN /\ raised' = NoException
            /\ frame' = [frame EXCEPT !.next_wps =
                                        next_wps_of(waypoints.val, frame.closest_wp_idx)]
            /\ pc' = [pc EXCEPT !.pose = "l143"]
            /\ UNCHANGED objects
       ELSE LET r == set_velocity_leading_to_stop_point(
                         objects, waypoints.val, current_velocity,
                         frame.closest_wp_idx, frame.stop_line_waypoint_idx)
                distances == distances_from(objects, waypoints.val, frame.closest_wp_idx,
                                            frame.stop_line_waypoint_idx, <<>>)
            IN  IF distances.raised = NoException /\ "current_velocity" \notin attrs
                THEN /\ raised' = AttributeError
                     /\ frame' = NoFrame
                     /\ pc' = [pc EXCEPT !.pose = "idle"]
                     /\ UNCHANGED objects
                ELSE /\ raised' = r.raised
                     /\ objects' = r.heap
                     /\ IF r.raised # NoException
                        THEN /\ frame' = NoFrame
                             /\ pc' = [pc EXCEPT !.pose = "idle"]
                        ELSE /\ frame' = [frame EXCEPT !.next_wps =
                                            next_wps_of(r.new_waypoints, frame.closest_wp_idx)]
                             /\ pc' = [pc EXCEPT !.pose = "l143"]
    /\ UNCHANGED <<stop_line_positions, waypoints, waypoints_kdtree, current_velocity,
                   current_traffic_light, current_pose, base_waypoints, published,
                   branch, attrs, unread>>

\* pose_cb, line 143: the stored TrafficLight is cleared.
pose_thread_l143 ==
    /\ pc.pose = "l143"
    /\ pc' = [pc EXCEPT !.pose = "l144"]
    /\ current_traffic_light' = None
    /\ unread' = FALSE
    /\ handler' = "pose_cb"
    /\ raised' = NoException
    /\ rosout' = <<>>
    /\ UNCHANGED <<stop_line_positions, objects, waypoints, waypoints_kdtree,
                   current_velocity, current_pose, base_waypoints, published, branch,
                   attrs, frame>>

\* pose_cb, line 144: the window is published.
pose_thread_l144 ==
    /\ pc.pose = "l144"
    /\ pc' = [pc EXCEPT !.pose = "idle"]
    /\ published' = Append(published, [topic |-> "final_waypoints", data |-> frame.next_wps])
    /\ frame' = NoFrame
    /\ handler' = "pose_cb"
    /\ raised' = NoException
    /\ rosout' = <<>>
    /\ UNCHANGED <<stop_line_positions, objects, waypoints, waypoints_kdtree,
                   current_velocity, current_traffic_light, current_pose,
                   base_waypoints, branch, attrs, unread>>

NextConc ==
    \/ init_thread
    \/ \E m \in Velocities : velocity_thread(m)
    \/ \E m \in ConcLights : traffic_light_thread(m)
    \/ \E lane \in ConcLanes : track_thread_l148(lane)
    \/ track_thread_l150
    \/ \E pose \in ConcPoses : pose_thread_l111(pose)
    \/ pose_thread_l115
    \/ pose_thread_l134
    \/ pose_thread_l136
    \/ pose_thread_l143
    \/ pose_thread_l144

SpecConc == InitConc /\ [][NextConc]_vars

----------------------------------------------------------------------------
(* What the last pose cycle worked on *)

\* The last callback was a pose update handled with a track loaded.
PoseCycle == handler = "pose_cb" /\ waypoints # None

\* closest_wp_idx and stop_line_waypoint_idx of that cycle.
VehicleIndex == closest_wp_idx_of(current_pose.val, waypoints_kdtree.val)
StopIndex ==
    stop_line_waypoint_idx_of(current_pose.val, stop_line_positions, waypoints_kdtree.val)

\* The cycle ran to its end.
Completed == raised = NoException

\* The Lane that cycle published on final_waypoints, if it published the
\* stop-line index and then the Lane, and the waypoints it carries.
WindowEmitted ==
    /\ Len(published) = 2
    /\ published[1].topic = "stop_line_waypoint"
    /\ published[2].topic = "final_waypoints"
Window == Deref(objects, published[2].data)

\* The speed of the Waypoint object the track holds at index i.
SpeedAt(i) == objects[At(waypoints.val, i)].v

\* The distances and the truncated arc length that cycle's generator computes.
CycleDistances == distances_from(objects, waypoints.val, VehicleIndex, StopIndex, <<>>)
CycleTotalDistance == total_distance_of(CycleDistances.val)

\* The speed distribution that cycle's generator builds.
CycleDistribution == distribution_of(current_velocity, CycleTotalDistance)

\* The arc length along the track from the vehicle's index to index k, in whole
\* distance units (truncated).
TruncatedArc(k) == distance(objects, waypoints.val, VehicleIndex, k).val \div Scale

\* The linear ramp from speed `from` at distance 0 down to 0 at distance `span`,
\* sampled at distance d.
RampSample(from, span, d) == Rat(from * (span - d), span)

\* The track indices distance(waypoints, wp1, wp2) reads: waypoints[wp1] and
\* waypoints[i] for i in range(wp1, wp2 + 1).
distance_reads(wp1, wp2) == IF wp1 <= wp2 THEN wp1..wp2 ELSE {}

\* The track indices the list comprehension of distances reads.
distances_reads(current_pose_wp_idx, stop_point_idx) ==
    UNION { distance_reads(i, i + 1) : i \in current_pose_wp_idx..stop_point_idx }

\* The track and its spatial index are loaded: both attributes exist and
\* neither is None.
TrackLoaded ==
    /\ {"waypoints", "waypoints_kdtree"} \subseteq attrs
    /\ waypoints # None
    /\ waypoints_kdtree # None

\* waypoints_cb has run to its end and left the track loaded.
TrackLoadCompleted == pc.track = "done" /\ TrackLoaded


----------------------------------------------------------------------------
(* Claims *)

\* C1: the speed of every waypoint of the canonical track (self.waypoints)
\* equals the speed it had when the track was loaded, after any sequence of
\* events.
C1_CanonicalTrackNeverMutated ==
    waypoints # None =>
        \A i \in 0..(Len(waypoints.val) - 1) : SpeedAt(i) = At(base_waypoints.val, i).v

\* C2: a signal reading is acted upon by at most one trajectory computation: a
\* pose update that follows a DECELERATE cycle with no signal update in between
\* does not enter DECELERATE again.
C2_SignalActedOnOnce ==
    [][(handler = "pose_cb" /\ branch = "DECELERATE" /\ handler' = "pose_cb") =>
          branch' # "DECELERATE"]_vars

\* C3: the speeds a completed DECELERATE cycle with vehicle_index < stop_index
\* wrote are non-increasing over (vehicle_index, stop_index] and 0 at
\* stop_index.
C3_DecelerateMonotoneToZero ==
    (PoseCycle /\ branch = "DECELERATE" /\ Completed /\ VehicleIndex < StopIndex) =>
        /\ \A i \in (VehicleIndex + 1)..(StopIndex - 1) : RatGeq(SpeedAt(i), SpeedAt(i + 1))
        /\ SpeedAt(StopIndex) = Zero

\* C4: the window a CRUISE cycle emits carries, for each waypoint, the speed
\* the track was loaded with at the same track index.
C4_CruisePassthrough ==
    (PoseCycle /\ branch = "CRUISE") =>
        /\ WindowEmitted
        /\ \A k \in 1..Len(Window) :
              Window[k].v = At(base_waypoints.val, VehicleIndex + k - 1).v

\* C5: every pose update handled while a track is loaded emits exactly one
\* stop-line index and then exactly one trajectory window.
C5_IndexThenWindow == PoseCycle => WindowEmitted

\* C6: every emitted window is the contiguous run of track waypoints starting
\* at vehicle_index, of length min(LOOKAHEAD_WPS, track_length - vehicle_index),
\* which never exceeds LOOKAHEAD_WPS.
C6_WindowBound ==
    \A m \in 1..Len(published) :
        published[m].topic = "final_waypoints" =>
            /\ Len(published[m].data) <= LOOKAHEAD_WPS
            /\ Len(published[m].data) =
                  Min(LOOKAHEAD_WPS, Len(waypoints.val) - VehicleIndex)
            /\ \A k \in 1..Len(published[m].data) :
                  published[m].data[k] = At(waypoints.val, VehicleIndex + k - 1)

\* A DECELERATE cycle on a track longer than the window emitted a window cut at
\* LOOKAHEAD_WPS.
C6_Witness ==
    /\ PoseCycle /\ branch = "DECELERATE" /\ WindowEmitted
    /\ VehicleIndex < StopIndex
    /\ Len(waypoints.val) - VehicleIndex > LOOKAHEAD_WPS
    /\ Len(Window) = LOOKAHEAD_WPS

\* C7: a pose update handled before any track is loaded is reported as an
\* error and aborts: it raises nothing, publishes nothing and leaves the stored
\* pose, speed and signal as they were.
C7_PoseBeforeTrackAborts ==
    [][(handler' = "pose_cb" /\ waypoints = None) =>
          /\ raised' = NoException
          /\ rosout' = <<"error">>
          /\ published' = <<>>
          /\ UNCHANGED <<current_pose, current_velocity, current_traffic_light>>]_vars

\* C8: with the light RED or YELLOW and the stop line behind the vehicle
\* (stop_index < vehicle_index) the cycle falls back to CRUISE: the generator is
\* not run, no speed is rewritten and the window carries the track's speeds.
C8_StopBehindFallsBackToCruise ==
    [][(/\ handler' = "pose_cb"
        /\ waypoints # None
        /\ must_stop(current_traffic_light)
        /\ StopIndex' < VehicleIndex') =>
          /\ branch' = "CRUISE"
          /\ objects' = objects
          /\ WindowEmitted'
          /\ Window' = Slice(Deref(objects, waypoints.val), VehicleIndex',
                             VehicleIndex' + LOOKAHEAD_WPS)]_vars

\* C9: a DECELERATE cycle with vehicle_index < stop_index whose summed arc
\* length truncates to 0 completes, emits its window and leaves speed 0 at the
\* affected waypoints.
C9_DegenerateRangeCompletes ==
    (/\ PoseCycle /\ branch = "DECELERATE"
     /\ VehicleIndex < StopIndex
     /\ CycleDistances.raised = NoException
     /\ CycleTotalDistance = 0) =>
        /\ Completed
        /\ WindowEmitted
        /\ \A i \in (VehicleIndex + 1)..StopIndex : SpeedAt(i) = Zero

\* C10: a speed update changes only current_velocity and a signal update only
\* current_traffic_light; neither publishes anything, and neither changes the
\* track, the spatial indices, the stored pose or the other's field.
C10_UpdatesOnlyStore ==
    [][/\ handler' = "current_velocity_cb" =>
            /\ published' = <<>>
            /\ UNCHANGED <<objects, waypoints, waypoints_kdtree, stop_line_positions,
                           current_pose, current_traffic_light>>
       /\ handler' = "upcoming_traffic_light_cb" =>
            /\ published' = <<>>
            /\ UNCHANGED <<objects, waypoints, waypoints_kdtree, stop_line_positions,
                           current_pose, current_velocity>>]_vars

\* A signal update has just been stored, after a speed update, a track load and
\* a pose cycle.
C10_Witness ==
    /\ handler = "upcoming_traffic_light_cb"
    /\ current_traffic_light # None
    /\ current_velocity # 0
    /\ waypoints # None
    /\ current_pose # None

\* C11: in a DECELERATE cycle with current speed at or above VEL_THRESHOLD the
\* speed written at each index k in (vehicle_index, stop_index] is the sample of
\* the linear ramp from current_speed to 0 over the truncated arc length from
\* vehicle_index to stop_index, taken at the truncated cumulative distance of k.
C11_LinearRampByCumulativeDistance ==
    (/\ PoseCycle /\ branch = "DECELERATE" /\ Completed
     /\ current_velocity >= VEL_THRESHOLD
     /\ VehicleIndex < StopIndex
     /\ TruncatedArc(StopIndex) >= 1) =>
        \A k \in (VehicleIndex + 1)..StopIndex :
            SpeedAt(k) = RampSample(current_velocity, TruncatedArc(StopIndex),
                                    TruncatedArc(k))

\* C12: in a DECELERATE cycle with current speed below VEL_THRESHOLD the profile
\* spans the truncated arc length D: it rises from current_speed to
\* VEL_THRESHOLD over the first half of D and falls from VEL_THRESHOLD to 0 over
\* the second half.
C12_TwoPhaseSpansArcLength ==
    (/\ PoseCycle /\ branch = "DECELERATE"
     /\ current_velocity < VEL_THRESHOLD
     /\ CycleDistances.raised = NoException
     /\ CycleTotalDistance >= 2) =>
        LET D == CycleTotalDistance
            half == D \div 2
            p == CycleDistribution
        IN  /\ Len(p) = D
            /\ p[1] = Rat(current_velocity, 1)
            /\ p[D] = Zero
            /\ \A i \in 1..(half - 1) : RatGeq(p[i + 1], p[i])
            /\ \A i \in (half + 1)..(D - 1) : RatGeq(p[i], p[i + 1])

\* C16: in a DECELERATE cycle with vehicle_index < stop_index and truncated
\* total arc length >= 1, every ramp lookup uses an index within the ramp, and
\* the cycle does not end with IndexError.
C16_RampLookupsInRange ==
    (/\ PoseCycle /\ branch = "DECELERATE"
     /\ VehicleIndex < StopIndex
     /\ CycleDistances.raised = NoException
     /\ CycleTotalDistance >= 1) =>
        /\ \A k \in 0..(StopIndex - VehicleIndex - 1) :
              At(CycleDistances.val, k) \div Scale < Len(CycleDistribution)
        /\ raised # IndexError

\* C17: in a DECELERATE cycle with 0 <= vehicle_index <= stop_index <=
\* track_length - 1 the distance computation reads only track indices in
\* [0, track_length - 1].
C17_DistanceReadsInTrack ==
    (/\ PoseCycle /\ branch = "DECELERATE"
     /\ 0 <= VehicleIndex /\ VehicleIndex <= StopIndex
     /\ StopIndex <= Len(waypoints.val) - 1) =>
        \A i \in distances_reads(VehicleIndex, StopIndex) :
            0 <= i /\ i <= Len(waypoints.val) - 1

\* C13: a DECELERATE cycle rewrites speeds only at the track indices in
\* (vehicle_index, stop_index]: the speed at vehicle_index, at every index below
\* it and at every index above stop_index, and every waypoint's position, are
\* after the cycle what they were before it.
C13_DecelerateWritesOnlySubRange ==
    [][(handler' = "pose_cb" /\ branch' = "DECELERATE") =>
          LET rewritten == { i \in 0..(Len(waypoints.val) - 1) :
                               objects'[At(waypoints.val, i)].v # objects[At(waypoints.val, i)].v }
          IN  /\ DOMAIN objects' = DOMAIN objects
              /\ \A i \in 0..(Len(waypoints.val) - 1) :
                    objects'[At(waypoints.val, i)].x = objects[At(waypoints.val, i)].x
              /\ rewritten # {} => rewritten \subseteq (VehicleIndex' + 1)..StopIndex']_vars

\* A completed DECELERATE cycle that rewrote a speed between the vehicle and the
\* stop line on a track that has waypoints on both sides of that range.
C13_Witness ==
    /\ PoseCycle /\ branch = "DECELERATE" /\ Completed
    /\ 0 < VehicleIndex /\ VehicleIndex < StopIndex
    /\ StopIndex < Len(waypoints.val) - 1
    /\ \E k \in (VehicleIndex + 1)..StopIndex : SpeedAt(k) # Nominal
    /\ \A i \in 0..VehicleIndex : SpeedAt(i) = Nominal
    /\ \A i \in (StopIndex + 1)..(Len(waypoints.val) - 1) : SpeedAt(i) = Nominal

\* C14: with upcoming_traffic_light_cb interleaving with a running pose_cb
\* (__init__ has reached spin()), pose_cb never clears a stored TrafficLight
\* that no decision of pose_cb has read: when line 143 runs, the TrafficLight
\* stored, if any, has been read by a decision.
C14_StoredSignalNotClearedUnread ==
    [][(pc.init = "l68" /\ pc.pose = "l143" /\ pc'.pose = "l144") => ~unread]_vars

\* C15: once waypoints_cb has run to its end, the track and its spatial index
\* stay loaded, whatever __init__ and the other threads do next.
C15_TrackStaysLoaded ==
    [][TrackLoadCompleted => TrackLoadCompleted']_vars

====
